---- MODULE Spec2Model ----
(***************************************************************************)
(* Model of ahu_model.py: closed-form regression formulas of an air        *)
(* handling unit (damper position, fan power, CHW valve position, CHW pump *)
(* speed, CHW pump power).                                                 *)
(*                                                                         *)
(* The formulas are evaluated in exact decimal arithmetic on a grid:       *)
(*   T_sa    is in tenths of a degree F        (T_sa = 600   is 60.0 F)     *)
(*   static  is in tenths of an inch w.c.      (static = 15  is 1.5)        *)
(*   freq    is in tenths of the rated speed   (freq = 10    is 1.0)        *)
(*   eff     is in tenths                      (eff = 9      is 0.9)        *)
(*   hp, load_adj are whole numbers.                                       *)
(* Results of the position/speed formulas are integers at a fixed decimal  *)
(* scale (damper: 10^7, valve and pump speed: 10^6).  Results of the power *)
(* formulas are exact fractions num / (den * 10^10) kW, num an exact      *)
(* signed integer of any size.                                             *)
(* fan_speed_from_static (a power law with exponent 0.3412) has no exact   *)
(* decimal value and is not part of this model.                            *)
(***************************************************************************)
EXTENDS Integers, Sequences, FiniteSets

VARIABLES fn, T_sa, static, load_adj, freq, hp, eff, pc, ret

vars == <<fn, T_sa, static, load_adj, freq, hp, eff, pc, ret>>

(***************************************************************************)
(* Documented input domains (docstrings), in grid units.                   *)
(***************************************************************************)
TsaLo == 550
TsaHi == 700
StaticLo == 3
StaticHi == 25
FreqLo == 0
FreqHi == 10

(***************************************************************************)
(* Bounds of the explored inputs: how far outside the documented domains   *)
(* the inputs range, and the largest hp / eff / load_adj tried.            *)
(***************************************************************************)
TsaMargin == 150
StaticMargin == 3
FreqMargin == 2
MaxHp == 26
MaxEff == 10
MaxAdj == 1

TsaIn == (TsaLo - TsaMargin)..(TsaHi + TsaMargin)
StaticIn == (StaticLo - StaticMargin)..(StaticHi + StaticMargin)
AdjIn == (0 - MaxAdj)..MaxAdj
FreqIn == (FreqLo - FreqMargin)..(FreqHi + FreqMargin)
HpIn == 1..MaxHp
EffIn == 1..MaxEff

TsaDomain == TsaLo..TsaHi
StaticDomain == StaticLo..StaticHi
FreqDomain == FreqLo..FreqHi

(***************************************************************************)
(* Exact naturals of any size: little-endian sequences of base-10^4 limbs  *)
(* without leading zero limbs (zero is the empty sequence).                *)
(***************************************************************************)
Limb == 10^4

RECURSIVE BigFromNat(_)
BigFromNat(n) == IF n = 0 THEN <<>> ELSE <<n % Limb>> \o BigFromNat(n \div Limb)

RECURSIVE BigMulCarry(_, _, _)
BigMulCarry(x, k, carry) ==
    IF x = <<>>
    THEN BigFromNat(carry)
    ELSE LET p == Head(x) * k + carry
         IN  <<p % Limb>> \o BigMulCarry(Tail(x), k, p \div Limb)

BigMul(x, k) == IF k = 0 THEN <<>> ELSE BigMulCarry(x, k, 0)

RECURSIVE BigLessFrom(_, _, _)
BigLessFrom(x, y, i) ==
    IF i = 0 THEN FALSE
    ELSE IF x[i] # y[i] THEN x[i] < y[i]
    ELSE BigLessFrom(x, y, i - 1)

BigLess(x, y) ==
    IF Len(x) # Len(y) THEN Len(x) < Len(y) ELSE BigLessFrom(x, y, Len(x))

BigLeq(x, y) == x = y \/ BigLess(x, y)

(* signed exact integers: a sign and a magnitude; zero is never negative *)
Abs(n) == IF n < 0 THEN 0 - n ELSE n

IntFrom(n) == [neg |-> n < 0, mag |-> BigFromNat(Abs(n))]

IntMul(x, k) ==
    LET m == BigMul(x.mag, Abs(k))
    IN  [neg |-> m # <<>> /\ (x.neg # (k < 0)), mag |-> m]

IntLeq(x, y) ==
    IF x.neg # y.neg THEN x.neg
    ELSE IF x.neg THEN BigLeq(y.mag, x.mag)
    ELSE BigLeq(x.mag, y.mag)

(* exact fractions num / (den * 10^10), den > 0 *)
FracLeq(p, q) == IntLeq(IntMul(p.num, q.den), IntMul(q.num, p.den))
FracEq(p, q) == IntMul(p.num, q.den) = IntMul(q.num, p.den)
FracPos(p) == p.num.mag # <<>> /\ ~p.num.neg

(***************************************************************************)
(* damper_pos_from_static: result scaled by 10^7.                          *)
(***************************************************************************)
damper_missing_offset(s, adj) ==
    LET coef == <<-2210, 11788, -21134, 16964>>
    IN  coef[1] * s^3 + coef[2] * s^2 * 10 + coef[3] * s * 100 + adj * 10^7

damper_pos_from_static(s, adj) ==
    LET coef == <<-2210, 11788, -21134, 16964>>
        pos_damper == coef[1] * s^3 + coef[2] * s^2 * 10 + coef[3] * s * 100
                      + coef[4] * 1000 + adj * 10^7
    IN  pos_damper

(***************************************************************************)
(* fan_power_from_speed / pump_power_from_speed.                           *)
(* Pratio is scaled by 10^7; the result is the fraction                    *)
(*   Pratio * hp * 0.7457 / eff  =  num / (den * 10^10).                   *)
(***************************************************************************)
fan_power_b_slip(f, h, e) ==
    LET a == 10608  b == -12220  c == 684  d == 22
        Pratio == a * f^3 + b * f^2 * 10 + c * f * 100 + d * 1000
    IN  [num |-> IntMul(IntFrom(Pratio * h), 7457), den |-> e]

fan_power_from_speed(f, h, e) ==
    LET a == 10608  b == -1222  c == 684  d == 22
        Pratio == a * f^3 + b * f^2 * 10 + c * f * 100 + d * 1000
        fan_power == [num |-> IntMul(IntFrom(Pratio * h), 7457), den |-> e]
    IN  fan_power

pump_power_a_typo(f, h, e) ==
    LET a == 10680  b == -1222  c == 684  d == 22
        Pratio == a * f^3 + b * f^2 * 10 + c * f * 100 + d * 1000
    IN  [num |-> IntMul(IntFrom(Pratio * h), 7457), den |-> e]

pump_power_from_speed(f, h, e) ==
    LET a == 10608  b == -1222  c == 684  d == 22
        Pratio == a * f^3 + b * f^2 * 10 + c * f * 100 + d * 1000
        pump_power == [num |-> IntMul(IntFrom(Pratio * h), 7457), den |-> e]
    IN  pump_power

(***************************************************************************)
(* valve_pos_from_Tsa_static: result scaled by 10^6.                       *)
(***************************************************************************)
pos_valve_unclamped(t, s) ==
    LET a == 8  b == -1217  c == 48238
        valve_adjust == 0 - (s - 15) * 20000
    IN  a * t^2 + b * t * 10 + c * 100 + valve_adjust

valve_pos_no_clamp(t, s) == pos_valve_unclamped(t, s)

valve_pos_b_positive(t, s) ==
    LET a == 8  b == 1217  c == 48238
        valve_adjust == 0 - (s - 15) * 20000
        pos_valve == a * t^2 + b * t * 10 + c * 100 + valve_adjust
    IN  IF pos_valve > 10^6 THEN 10^6 ELSE pos_valve

valve_pos_adjust_sign(t, s) ==
    LET a == 8  b == -1217  c == 48238
        valve_adjust == (s - 15) * 20000
        pos_valve == a * t^2 + b * t * 10 + c * 100 + valve_adjust
    IN  IF pos_valve > 10^6 THEN 10^6 ELSE pos_valve

valve_pos_from_Tsa_static(t, s) ==
    LET pos_valve == pos_valve_unclamped(t, s)
    IN  IF pos_valve > 10^6 THEN 10^6 ELSE pos_valve

(***************************************************************************)
(* pump_speed_from_Tsa_static: result scaled by 10^6.                      *)
(***************************************************************************)
base_speed == 600000
base_threashold == 600

adj_threashold(s) == base_threashold - (s - 15) * 10

T_sa_adjust(t, s) == t + (s - 15) * 10

pump_quadratic(x) ==
    LET a == 15  b == -1845  c == 62675
    IN  a * x^2 + b * x * 10 + c * 100

pump_speed_strict(t, s) ==
    IF t > adj_threashold(s)
    THEN base_speed
    ELSE pump_quadratic(T_sa_adjust(t, s))

pump_speed_base_threshold(t, s) ==
    IF t >= base_threashold
    THEN base_speed
    ELSE pump_quadratic(T_sa_adjust(t, s))

pump_speed_from_Tsa_static(t, s) ==
    IF t >= adj_threashold(s)
    THEN base_speed
    ELSE pump_quadratic(T_sa_adjust(t, s))

(***************************************************************************)
(* One call of one function: Init draws the function and its arguments,    *)
(* the function's action evaluates it and returns.                         *)
(***************************************************************************)
Functions == {"damper_pos_from_static", "fan_power_from_speed",
              "valve_pos_from_Tsa_static", "pump_speed_from_Tsa_static",
              "pump_power_from_speed"}

Init ==
    /\ pc = "call"
    /\ ret = 0
    /\ fn \in Functions
    /\ \/ /\ fn = "damper_pos_from_static"
          /\ static \in StaticIn /\ load_adj \in AdjIn
          /\ T_sa = 0 /\ freq = 0 /\ hp = 0 /\ eff = 0
       \/ /\ fn \in {"fan_power_from_speed", "pump_power_from_speed"}
          /\ freq \in FreqIn /\ hp \in HpIn /\ eff \in EffIn
          /\ T_sa = 0 /\ static = 0 /\ load_adj = 0
       \/ /\ fn \in {"valve_pos_from_Tsa_static", "pump_speed_from_Tsa_static"}
          /\ T_sa \in TsaIn /\ static \in StaticIn
          /\ load_adj = 0 /\ freq = 0 /\ hp = 0 /\ eff = 0

Return(f, value) ==
    /\ pc = "call"
    /\ fn = f
    /\ ret' = value
    /\ pc' = "return"
    /\ UNCHANGED <<fn, T_sa, static, load_adj, freq, hp, eff>>

DamperPos == Return("damper_pos_from_static", damper_pos_from_static(static, load_adj))

FanPower == Return("fan_power_from_speed", fan_power_from_speed(freq, hp, eff))

ValvePos == Return("valve_pos_from_Tsa_static", valve_pos_from_Tsa_static(T_sa, static))

PumpSpeed == Return("pump_speed_from_Tsa_static", pump_speed_from_Tsa_static(T_sa, static))

PumpPower == Return("pump_power_from_speed", pump_power_from_speed(freq, hp, eff))

Next == DamperPos \/ FanPower \/ ValvePos \/ PumpSpeed \/ PumpPower

Spec == Init /\ [][Next]_vars

Returned(f) == pc = "return" /\ fn = f

(***************************************************************************)
(* Default arguments of the power formulas.                                *)
(***************************************************************************)
fan_hp_default == 15
pump_hp_default == 25
fan_eff_default == 9
pump_eff_default == 9

(***************************************************************************)
(* Properties.                                                             *)
(***************************************************************************)

(* C1: valve_pos_from_Tsa_static returns exactly 1 when the unclamped      *)
(* value 0.0008*T^2 - 0.1217*T + 4.8238 - (static - 1.5)*0.2 is above 1,   *)
(* returns the unclamped value itself when it is at most 1 (also when it   *)
(* is below 0), and so never returns more than 1.                          *)
C1_ValveClamp ==
    Returned("valve_pos_from_Tsa_static") =>
        LET raw == 8 * T_sa^2 - 12170 * T_sa + 4823800 - (static - 15) * 20000
        IN  /\ raw > 10^6 => ret = 10^6
            /\ raw <= 10^6 => ret = raw
            /\ ret <= 10^6

C1_Witness ==
    /\ Returned("valve_pos_from_Tsa_static")
    /\ pos_valve_unclamped(T_sa, static) > 10^6
    /\ ret = 10^6

(* C2: with adjusted_threshold = 60 - (static - 1.5)*10, pump_speed        *)
(* returns exactly 0.6 whenever T_sa >= adjusted_threshold (equality       *)
(* included) and otherwise 0.0015*t^2 - 0.1845*t + 6.2675 at               *)
(* t = T_sa + (static - 1.5)*10; one degree below the threshold the        *)
(* quadratic branch is taken and the value differs from 0.6.               *)
C2_PumpBranch ==
    Returned("pump_speed_from_Tsa_static") =>
        LET thr == 600 - (static - 15) * 10
            t == T_sa + (static - 15) * 10
            quad == 15 * t^2 - 18450 * t + 6267500
        IN  /\ T_sa >= thr => ret = 600000
            /\ T_sa < thr => ret = quad
            /\ T_sa = thr - 10 => (ret = quad /\ ret # 600000)

C2_Witness ==
    /\ Returned("pump_speed_from_Tsa_static")
    /\ T_sa = 600 - (static - 15) * 10
    /\ ret = 600000

(* C3 as stated: valve_position(60, 1.5) has the unclamped value 1.4018,   *)
(* takes the clamp and returns exactly 1.0.                                *)
C3_Original ==
    (Returned("valve_pos_from_Tsa_static") /\ T_sa = 600 /\ static = 15) =>
        (pos_valve_unclamped(T_sa, static) = 1401800 /\ ret = 10^6)

(* C3 amended: valve_position(60, 1.5) has the unclamped value 0.4018      *)
(* (2.88 - 7.302 + 4.8238), which does not exceed 1, so no clamp is taken  *)
(* and the function returns 0.4018.                                        *)
C3_Valve60 ==
    (Returned("valve_pos_from_Tsa_static") /\ T_sa = 600 /\ static = 15) =>
        (ret = 401800 /\ ret < 10^6)

C3_Witness ==
    /\ Returned("valve_pos_from_Tsa_static")
    /\ T_sa = 600
    /\ static = 15

(* C4 as stated: damper_position(1.0, 0) returns 0.3388.                   *)
C4_Original ==
    (Returned("damper_pos_from_static") /\ static = 10 /\ load_adj = 0) =>
        ret = 3388000

(* C4 amended: damper_position(1.0, 0) returns 0.5408, the sum of the four *)
(* coefficients -0.221 + 1.1788 - 2.1134 + 1.6964.                         *)
C4_Damper1 ==
    (Returned("damper_pos_from_static") /\ static = 10 /\ load_adj = 0) =>
        (ret = 5408000 /\ ret = -2210000 + 11788000 - 21134000 + 16964000)

C4_Witness ==
    /\ Returned("damper_pos_from_static")
    /\ static = 10
    /\ load_adj = 0

(* C5: for every static in [0.3, 2.5] and load_adjustment = 0,             *)
(* damper_pos_from_static returns a ratio inside [0, 1].                   *)
C5_DamperInUnit ==
    (Returned("damper_pos_from_static") /\ static \in StaticDomain /\ load_adj = 0) =>
        (0 <= ret /\ ret <= 10^7)

(* C6: for every T_sa in [55, 70] and static in [0.3, 2.5],                *)
(* pump_speed_from_Tsa_static returns a value inside [0, 1].               *)
C6_PumpInUnit ==
    (/\ Returned("pump_speed_from_Tsa_static")
     /\ T_sa \in TsaDomain
     /\ static \in StaticDomain) =>
        (0 <= ret /\ ret <= 10^6)

(* C7: for every T_sa in [55, 70] and static in [0.3, 2.5],                *)
(* valve_pos_from_Tsa_static returns a value in (0, 1]: strictly positive  *)
(* although there is no lower clamp, and at most 1.                        *)
C7_ValveInDomain ==
    (/\ Returned("valve_pos_from_Tsa_static")
     /\ T_sa \in TsaDomain
     /\ static \in StaticDomain) =>
        (0 < ret /\ ret <= 10^6)

C7_Witness ==
    /\ Returned("valve_pos_from_Tsa_static")
    /\ T_sa = TsaHi
    /\ static = StaticHi
    /\ ret = 24800

(* C8: fan_power_from_speed and pump_power_from_speed compute the same     *)
(* function: for every speed ratio, rated power and nonzero efficiency     *)
(* (in particular for rated power 1 and efficiency 1) the value one        *)
(* returns is the value of the other; only the default rated power         *)
(* differs (15 against 25).                                                *)
C8_SameCurve ==
    /\ Returned("fan_power_from_speed") =>
           FracEq(ret, pump_power_from_speed(freq, hp, eff))
    /\ Returned("pump_power_from_speed") =>
           FracEq(ret, fan_power_from_speed(freq, hp, eff))
    /\ fan_hp_default = 15 /\ pump_hp_default = 25
    /\ fan_eff_default = pump_eff_default

C8_Witness ==
    /\ Returned("pump_power_from_speed")
    /\ freq = 5
    /\ hp = 1
    /\ eff = 10
    /\ FracEq(ret, fan_power_from_speed(5, 1, 10))

(* C9: with the default rated power and efficiency, the power returned at  *)
(* a speed ratio in [0, 1] is positive and is at most the power at every   *)
(* larger speed ratio in [0, 1], for the fan and for the pump.             *)
C9_Monotone ==
    /\ (/\ Returned("fan_power_from_speed")
        /\ hp = fan_hp_default /\ eff = fan_eff_default
        /\ freq \in FreqDomain) =>
           /\ FracPos(ret)
           /\ \A r2 \in FreqDomain :
                  freq <= r2 =>
                      FracLeq(ret, fan_power_from_speed(r2, fan_hp_default, fan_eff_default))
    /\ (/\ Returned("pump_power_from_speed")
        /\ hp = pump_hp_default /\ eff = pump_eff_default
        /\ freq \in FreqDomain) =>
           /\ FracPos(ret)
           /\ \A r2 \in FreqDomain :
                  freq <= r2 =>
                      FracLeq(ret, pump_power_from_speed(r2, pump_hp_default, pump_eff_default))

C9_Witness ==
    /\ Returned("fan_power_from_speed")
    /\ hp = fan_hp_default
    /\ eff = fan_eff_default
    /\ freq = FreqLo
    /\ FracPos(ret)
    /\ ~FracEq(ret, fan_power_from_speed(FreqHi, fan_hp_default, fan_eff_default))

(* C10: T_sa >= 60 - (static - 1.5)*10 holds exactly when                  *)
(* T_sa + (static - 1.5)*10 >= 60, so the quadratic is only evaluated at   *)
(* an adjusted temperature below 60; for every input the result is         *)
(* strictly greater than 0.5975, and just below the threshold the result   *)
(* is below 0.6 while at the threshold it is exactly 0.6.                  *)
C10_PumpFloor ==
    Returned("pump_speed_from_Tsa_static") =>
        LET thr == 600 - (static - 15) * 10
            t == T_sa + (static - 15) * 10
        IN  /\ (T_sa >= thr) <=> (t >= 600)
            /\ ret # 600000 => t < 600
            /\ ret > 597500
            /\ T_sa = thr - 1 => ret < 600000
            /\ T_sa = thr => ret = 600000

C10_Witness ==
    /\ Returned("pump_speed_from_Tsa_static")
    /\ T_sa = 600 - (static - 15) * 10 - 1
    /\ ret > 597500
    /\ ret < 600000

====
